---- MODULE Spec2Model ----
(***************************************************************************)
(* Model of tonlibjson-jsonrpc (src/tonlibjson-jsonrpc/src/main.rs): the   *)
(* JSON-RPC gateway's request decoding, the dispatcher, the per-method     *)
(* handlers of RpcServer and the stream pipelines of getBlockTransactions  *)
(* and getTransactions.                                                    *)
(*                                                                         *)
(* One behaviour is the life of one request: the dispatcher keeps no state *)
(* across requests (RpcServer holds only the client handle), so requests   *)
(* are independent.  A handler step is the code between two suspension     *)
(* points (a backend call, a pull from a backend stream).                  *)
(*                                                                         *)
(* Text that the code parses is a sequence of one-character strings        *)
(* (<<"-","1">> is "-1"); text it only passes on is a TLA+ string.         *)
(* Option<T> is a sequence of length at most one.                          *)
(***************************************************************************)
EXTENDS Integers, Sequences, FiniteSets, TLC

VARIABLES
    pc,        \* position of the request: idle, dispatch, bt_stream, tx_stream,
               \* done (envelope written), rejected (extractor refused the body),
               \* aborted (the handler task panicked)
    raw,       \* the request body as received
    req,       \* the decoded JsonRequest: [id, method, params]
    calls,     \* backend operations invoked for this request, in order
    block,     \* get_block_transactions: the BlockIdExt decoded from the lookup
    stream,    \* the backend stream being consumed: [src, cyclic, pos]
    pulls,     \* number of polls of the backend stream
    remaining, \* Take::remaining of get_transactions
    twdone,    \* TakeWhile::done of get_transactions
    txs,       \* the Vec being collected
    resp       \* the JsonResponse written, as an Option

vars == <<pc, raw, req, calls, block, stream, pulls, remaining, twdone, txs, resp>>

None == <<>>
Some(v) == <<v>>

-----------------------------------------------------------------------------
(* Bounds of the model.                                                    *)

\* longest finite backend stream (and period of an unbounded one)
MaxStream == 3
\* records of an unbounded block stream tracked in the collected Vec
MaxCollect == 4

-----------------------------------------------------------------------------
(* str::parse::<i64> (main.rs 148, 163, 173, 215, 227).                    *)

Digits == <<"0", "1", "2", "3", "4", "5", "6", "7", "8", "9">>

\* the value of each digit
DigitValues ==
    [c \in {Digits[i] : i \in 1..10} |-> (CHOOSE i \in 1..10 : Digits[i] = c) - 1]

IsDigit(c) == c \in DOMAIN DigitValues

DigitVal(c) == DigitValues[c]

\* decimal digits of i64::MAX and of -i64::MIN
I64MaxDigits == <<9,2,2,3,3,7,2,0,3,6,8,5,4,7,7,5,8,0,7>>
I64MinDigits == <<9,2,2,3,3,7,2,0,3,6,8,5,4,7,7,5,8,0,8>>

RECURSIVE StripZeros(_)
StripZeros(ds) ==
    IF ds # <<>> /\ ds[1] = 0 THEN StripZeros(Tail(ds)) ELSE ds

\* the magnitude written by digits ds is larger than the one written by lim
ExceedsLimit(ds, lim) ==
    LET sig == StripZeros(ds) IN
    \/ Len(sig) > Len(lim)
    \/ /\ Len(sig) = Len(lim)
       /\ \E i \in 1..Len(lim) :
            /\ sig[i] > lim[i]
            /\ \A j \in 1..(i-1) : sig[j] = lim[j]

\* An i64 is kept as sign and magnitude (decimal digits without leading zeros),
\* so that the whole 64-bit range is covered: zero is [neg |-> FALSE, mag |-> <<>>].
I64(neg, ds) ==
    LET sig == StripZeros(ds)
    IN  [neg |-> neg /\ sig # <<>>, mag |-> sig]

\* a > b on i64
I64Gt(a, b) ==
    IF a.neg # b.neg THEN b.neg
    ELSE IF a.neg THEN ExceedsLimit(b.mag, a.mag)
    ELSE ExceedsLimit(a.mag, b.mag)

\* anyhow::Result<T>
Ok(v) == [ok |-> TRUE, val |-> v]
Err(m) == [ok |-> FALSE, err |-> m]

ParseI64(s) ==
    IF s = <<>> THEN Err("cannot parse integer from empty string")
    ELSE
      LET neg  == s[1] = "-"
          body == IF s[1] \in {"+", "-"} THEN Tail(s) ELSE s
      IN  IF body = <<>> \/ \E i \in 1..Len(body) : ~IsDigit(body[i])
          THEN Err("invalid digit found in string")
          ELSE
            LET ds == [i \in 1..Len(body) |-> DigitVal(body[i])] IN
            IF neg /\ ExceedsLimit(ds, I64MinDigits)
            THEN Err("number too small to fit in target type")
            ELSE IF ~neg /\ ExceedsLimit(ds, I64MaxDigits)
            THEN Err("number too large to fit in target type")
            ELSE Ok(I64(neg, ds))

-----------------------------------------------------------------------------
(* base64::decode / base64::encode (standard alphabet, padded) and         *)
(* hex::encode, as used by base64_to_hex and send_boc.                     *)

B64Alphabet ==
    <<"A","B","C","D","E","F","G","H","I","J","K","L","M","N","O","P",
      "Q","R","S","T","U","V","W","X","Y","Z","a","b","c","d","e","f",
      "g","h","i","j","k","l","m","n","o","p","q","r","s","t","u","v",
      "w","x","y","z","0","1","2","3","4","5","6","7","8","9","+","/">>

\* the six bits of each symbol
B64Values ==
    [c \in {B64Alphabet[i] : i \in 1..64} |->
        (CHOOSE i \in 1..64 : B64Alphabet[i] = c) - 1]

IsB64(c) == c \in DOMAIN B64Values

B64Index(c) == B64Values[c]

\* number of "=" at the end of s
PadCount(s) ==
    IF Len(s) >= 2 /\ s[Len(s)] = "=" /\ s[Len(s) - 1] = "=" THEN 2
    ELSE IF Len(s) >= 1 /\ s[Len(s)] = "=" THEN 1
    ELSE 0

\* byte k (from 0) of the sextets sx
B64Byte(sx, k) ==
    LET q == 4 * (k \div 3)
        r == k % 3
    IN  IF r = 0 THEN (sx[q + 1] * 4) + (sx[q + 2] \div 16)
        ELSE IF r = 1 THEN ((sx[q + 2] % 16) * 16) + (sx[q + 3] \div 4)
        ELSE ((sx[q + 3] % 4) * 64) + sx[q + 4]

\* One quantum is four symbols; the last one may be padded with one or two "=".
\* The inputs of the model are whole quanta or plainly invalid text: text whose
\* length is 1 modulo 4, or that holds a symbol outside the alphabet.
Base64Decode(s) ==
    LET p    == PadCount(s)
        data == SubSeq(s, 1, Len(s) - p)
    IN  IF \E i \in 1..Len(data) : ~IsB64(data[i])
        THEN Err("Invalid byte")
        ELSE IF Len(s) % 4 # 0
        THEN Err("Encoded text cannot have a 6-bit remainder.")
        ELSE
          LET sx == [i \in 1..Len(data) |-> B64Index(data[i])]
              n  == (Len(data) * 6) \div 8
          IN  IF \/ (p = 2 /\ sx[Len(sx)] % 16 # 0)
                 \/ (p = 1 /\ sx[Len(sx)] % 4 # 0)
              THEN Err("Invalid last symbol")
              ELSE Ok([k \in 1..n |-> B64Byte(sx, k - 1)])

HexChars == <<"0","1","2","3","4","5","6","7","8","9","a","b","c","d","e","f">>

RECURSIVE HexEncode(_)
HexEncode(bytes) ==
    IF bytes = <<>> THEN ""
    ELSE HexChars[(bytes[1] \div 16) + 1] \o HexChars[(bytes[1] % 16) + 1]
           \o HexEncode(Tail(bytes))

\* symbol k (from 0) of the encoding of bytes, before padding
B64Symbol(bytes, k) ==
    LET q  == 3 * (k \div 4)
        r  == k % 4
        at(i) == IF i <= Len(bytes) THEN bytes[i] ELSE 0
    IN  B64Alphabet[1 +
          (IF r = 0 THEN at(q + 1) \div 4
           ELSE IF r = 1 THEN ((at(q + 1) % 4) * 16) + (at(q + 2) \div 16)
           ELSE IF r = 2 THEN ((at(q + 2) % 16) * 4) + (at(q + 3) \div 64)
           ELSE at(q + 3) % 64)]

Base64Encode(bytes) ==
    LET n    == Len(bytes)
        full == 4 * ((n + 2) \div 3)
        syms == ((n * 8) + 5) \div 6
    IN  [k \in 1..full |-> IF k <= syms THEN B64Symbol(bytes, k - 1) ELSE "="]

base64_to_hex(b) ==
    LET bytes == Base64Decode(b)
    IN  IF bytes.ok THEN Ok(HexEncode(bytes.val)) ELSE bytes

-----------------------------------------------------------------------------
(* The request body on the wire.  A JSON value carries its type:           *)
(* [num |-> n], [str |-> s], [bool |-> b]; a JSON object is a record whose *)
(* domain is the set of the members that are present.                      *)

JNum(n) == [num |-> n]
JStr(s) == [str |-> s]
JBool(b) == [bool |-> b]

IsNum(j) == DOMAIN j = {"num"}
IsStr(j) == DOMAIN j = {"str"}
IsBool(j) == DOMAIN j = {"bool"}

\* largest u8 (count) and u16 (limit); u64 and i64 lie beyond the numbers of the model
U8Max == 255
U16Max == 65535

FitsI64(p, f) == f \in DOMAIN p /\ IsNum(p[f])
FitsU64(p, f) == f \in DOMAIN p /\ IsNum(p[f]) /\ p[f].num >= 0
FitsU16(p, f) == FitsU64(p, f) /\ p[f].num <= U16Max
FitsU8(p, f) == FitsU64(p, f) /\ p[f].num <= U8Max
FitsString(p, f) == f \in DOMAIN p /\ IsStr(p[f])
FitsBool(p, f) == f \in DOMAIN p /\ IsBool(p[f])

\* an Option<T> member: absent, or of type T
OptFits(p, f, Fits(_, _)) == f \notin DOMAIN p \/ Fits(p, f)

OptNum(p, f) == IF f \in DOMAIN p THEN Some(p[f].num) ELSE None
OptStr(p, f) == IF f \in DOMAIN p THEN Some(p[f].str) ELSE None
OptBool(p, f) == IF f \in DOMAIN p THEN Some(p[f].bool) ELSE None

DecodeOk(v) == [ok |-> TRUE, val |-> v]
DecodeErr == [ok |-> FALSE]

LookupBlockParams(p) ==
    IF /\ FitsI64(p, "workchain") /\ FitsString(p, "shard")
       /\ OptFits(p, "seqno", FitsU64) /\ OptFits(p, "lt", FitsI64)
       /\ OptFits(p, "unixtime", FitsU64)
    THEN DecodeOk([workchain |-> p.workchain.num, shard |-> p.shard.str,
                   seqno |-> OptNum(p, "seqno"), lt |-> OptNum(p, "lt"),
                   unixtime |-> OptNum(p, "unixtime")])
    ELSE DecodeErr

ShardsParams(p) ==
    IF FitsU64(p, "seqno") THEN DecodeOk([seqno |-> p.seqno.num]) ELSE DecodeErr

BlockHeaderParams(p) ==
    IF /\ FitsI64(p, "workchain") /\ FitsString(p, "shard") /\ FitsU64(p, "seqno")
       /\ OptFits(p, "root_hash", FitsString) /\ OptFits(p, "file_hash", FitsString)
    THEN DecodeOk([workchain |-> p.workchain.num, shard |-> p.shard.str,
                   seqno |-> p.seqno.num, root_hash |-> OptStr(p, "root_hash"),
                   file_hash |-> OptStr(p, "file_hash")])
    ELSE DecodeErr

BlockTransactionsParams(p) ==
    IF /\ FitsI64(p, "workchain") /\ FitsString(p, "shard") /\ FitsU64(p, "seqno")
       /\ OptFits(p, "root_hash", FitsString) /\ OptFits(p, "file_hash", FitsString)
       /\ OptFits(p, "after_lt", FitsI64) /\ OptFits(p, "after_hash", FitsString)
       /\ OptFits(p, "count", FitsU8)
    THEN DecodeOk([workchain |-> p.workchain.num, shard |-> p.shard.str,
                   seqno |-> p.seqno.num, root_hash |-> OptStr(p, "root_hash"),
                   file_hash |-> OptStr(p, "file_hash"),
                   after_lt |-> OptNum(p, "after_lt"),
                   after_hash |-> OptStr(p, "after_hash"),
                   count |-> OptNum(p, "count")])
    ELSE DecodeErr

AddressParams(p) ==
    IF FitsString(p, "address") THEN DecodeOk([address |-> p.address.str])
    ELSE DecodeErr

TransactionsParams(p) ==
    IF /\ FitsString(p, "address") /\ OptFits(p, "limit", FitsU16)
       /\ OptFits(p, "lt", FitsString) /\ OptFits(p, "hash", FitsString)
       /\ OptFits(p, "to_lt", FitsString) /\ OptFits(p, "archival", FitsBool)
    THEN DecodeOk([address |-> p.address.str, limit |-> OptNum(p, "limit"),
                   lt |-> OptStr(p, "lt"), hash |-> OptStr(p, "hash"),
                   to_lt |-> OptStr(p, "to_lt"),
                   archival |-> OptBool(p, "archival")])
    ELSE DecodeErr

SendBocParams(p) ==
    IF FitsString(p, "boc") THEN DecodeOk([boc |-> p.boc.str]) ELSE DecodeErr

\* the variant of Method that each "method" tag selects
MethodTags ==
    [lookupBlock |-> "LookupBlock", shards |-> "Shards",
     getBlockHeader |-> "BlockHeader",
     getBlockTransactions |-> "BlockTransactions",
     getAddressInformation |-> "AddressInformation",
     getExtendedAddressInformation |-> "ExtendedAddressInformation",
     getTransactions |-> "Transactions", sendBoc |-> "SendBoc",
     getMasterchainInfo |-> "MasterchainInfo"]

ParamsOf(tag, p) ==
    CASE tag = "LookupBlock" -> LookupBlockParams(p)
      [] tag = "Shards" -> ShardsParams(p)
      [] tag = "BlockHeader" -> BlockHeaderParams(p)
      [] tag = "BlockTransactions" -> BlockTransactionsParams(p)
      [] tag \in {"AddressInformation", "ExtendedAddressInformation"} -> AddressParams(p)
      [] tag = "Transactions" -> TransactionsParams(p)
      [] tag = "SendBoc" -> SendBocParams(p)

Method_fallback(body) ==
    IF ~FitsString(body, "method") THEN DecodeErr
    ELSE LET tag == IF body.method.str \in DOMAIN MethodTags
                    THEN MethodTags[body.method.str] ELSE "MasterchainInfo" IN
         IF tag = "MasterchainInfo" THEN DecodeOk([tag |-> tag, params |-> None])
         ELSE IF "params" \notin DOMAIN body THEN DecodeErr
         ELSE LET ps == ParamsOf(tag, body.params) IN
              IF ps.ok THEN DecodeOk([tag |-> tag, params |-> ps.val])
              ELSE DecodeErr

\* Deserialize for Method: an internally tagged enum on "method"
Method(body) ==
    IF ~FitsString(body, "method") \/ body.method.str \notin DOMAIN MethodTags
    THEN DecodeErr
    ELSE LET tag == MethodTags[body.method.str] IN
         IF tag = "MasterchainInfo" THEN DecodeOk([tag |-> tag, params |-> None])
         ELSE IF "params" \notin DOMAIN body THEN DecodeErr
         ELSE LET ps == ParamsOf(tag, body.params) IN
              IF ps.ok THEN DecodeOk([tag |-> tag, params |-> ps.val])
              ELSE DecodeErr

\* Deserialize for JsonRequest: jsonrpc, id and the flattened Method
JsonRequest(body) ==
    LET m == Method(body) IN
    IF FitsString(body, "jsonrpc") /\ FitsU64(body, "id") /\ m.ok
    THEN DecodeOk([jsonrpc |-> body.jsonrpc.str, id |-> body.id.num,
                   method |-> m.val.tag, params |-> m.val.params])
    ELSE DecodeErr

-----------------------------------------------------------------------------
(* The bodies a client sends: every method with parameters that fit it,    *)
(* in and out of range, and bodies that do not decode.                     *)

RequestIds == {3, 7}

\* "-9223372036854775808" (the masterchain shard), "abc", "9223372036854775808"
ShardTexts ==
    { <<"-","9","2","2","3","3","7","2","0","3","6","8","5","4","7","7","5","8","0","8">>,
      <<"a","b","c">>,
      <<"9","2","2","3","3","7","2","0","3","6","8","5","4","7","7","5","8","0","8">> }

MasterShard == <<"-","9","2","2","3","3","7","2","0","3","6","8","5","4","7","7","5","8","0","8">>

\* an optional member f: absent, or one of vals
OptMember(f, vals) == {<<>>} \cup {f :> v : v \in vals}

LookupBlockBodies ==
    { [workchain |-> JNum(-1), shard |-> JStr(s)] @@ a @@ b @@ c :
        s \in ShardTexts,
        a \in OptMember("seqno", {JNum(0), JNum(5)}),
        b \in OptMember("lt", {JNum(-3), JNum(0), JNum(7)}),
        c \in OptMember("unixtime", {JNum(9)}) }

ShardsBodies == { [seqno |-> JNum(n)] : n \in {-1, 5} }

BlockHeaderBodies ==
    { [workchain |-> JNum(-1), shard |-> JStr(s), seqno |-> JNum(5)] @@ a :
        s \in ShardTexts, a \in OptMember("root_hash", {JStr("rh")}) }

BlockTransactionsBodies ==
    { [workchain |-> JNum(-1), shard |-> JStr(s), seqno |-> JNum(5)] @@ c :
        s \in {MasterShard, <<"a","b","c">>},
        c \in OptMember("count", {JNum(1), JNum(2), JNum(U8Max + 1)}) }

AddressBodies == { [address |-> JStr("EQaddr")], [address |-> JNum(1)] }

\* to_lt: "50", "5x"
ToLtTexts == { <<"5","0">>, <<"5","x">> }

TransactionsBodies ==
    { [address |-> JStr("EQaddr")] @@ l @@ c @@ t :
        l \in OptMember("limit", {JNum(0), JNum(1), JNum(2), JNum(U16Max + 1)}),
        c \in { <<>>, [lt |-> JStr("90")], [lt |-> JStr("90"), hash |-> JStr("h90")] },
        t \in OptMember("to_lt", {JStr(x) : x \in ToLtTexts}) }

\* boc: "qrvM", "/w==", "!w==", "A"
BocTexts ==
    { <<"q","r","v","M">>, <<"/","w","=","=">>, <<"!","w","=","=">>, <<"A">> }

SendBocBodies == { [boc |-> JStr(b)] : b \in BocTexts }

BodiesOf(m) ==
    CASE m = "lookupBlock" -> LookupBlockBodies
      [] m = "shards" -> ShardsBodies
      [] m = "getBlockHeader" -> BlockHeaderBodies
      [] m = "getBlockTransactions" -> BlockTransactionsBodies
      [] m \in {"getAddressInformation", "getExtendedAddressInformation"} -> AddressBodies
      [] m = "getTransactions" -> TransactionsBodies
      [] m = "sendBoc" -> SendBocBodies

WellFormedBodies ==
    UNION { { [jsonrpc |-> JStr("2.0"), id |-> JNum(i), method |-> JStr(m),
                params |-> p] : i \in RequestIds, p \in BodiesOf(m) } :
            m \in DOMAIN MethodTags \ {"getMasterchainInfo"} }
    \cup { [jsonrpc |-> JStr("2.0"), id |-> JNum(i),
            method |-> JStr("getMasterchainInfo")] : i \in RequestIds }

\* an unknown method, a method with another method's parameters, no parameters,
\* an id that is no u64, no id, no method
MalformedBodies ==
    { [jsonrpc |-> JStr("2.0"), id |-> JNum(3), method |-> JStr("getBlock"),
       params |-> [workchain |-> JNum(-1), shard |-> JStr(MasterShard), seqno |-> JNum(5)]],
      [jsonrpc |-> JStr("2.0"), id |-> JNum(3), method |-> JStr("getTransactions"),
       params |-> [workchain |-> JNum(-1), shard |-> JStr(MasterShard), seqno |-> JNum(5)]],
      [jsonrpc |-> JStr("2.0"), id |-> JNum(3), method |-> JStr("shards")],
      [jsonrpc |-> JStr("2.0"), id |-> JNum(-1), method |-> JStr("getMasterchainInfo")],
      [jsonrpc |-> JStr("2.0"), method |-> JStr("getMasterchainInfo")],
      [jsonrpc |-> JStr("2.0"), id |-> JNum(3),
       params |-> [address |-> JStr("EQaddr")]] }

RawBodies == WellFormedBodies \cup MalformedBodies

-----------------------------------------------------------------------------
(* The backend (tonlibjson_tokio::AsyncClient), a black box: a point       *)
(* operation answers a JSON value or fails; a stream operation hands out a *)
(* stream of records, finite or unbounded.                                 *)

BackendAnswers == { Ok([value |-> JStr("v")]), Err("backend error") }

\* what look_up_block_by_seqno / look_up_block_by_lt answer
BlockJsons ==
    { [workchain |-> JNum(w), shard |-> JStr(MasterShard), seqno |-> JNum(5),
       root_hash |-> JStr("rh"), file_hash |-> JStr("fh")] : w \in {-1, 0} }
    \cup { [workchain |-> JNum(0)] }

LookupAnswers == { Ok(j) : j \in BlockJsons } \cup { Err("block not found") }

\* Deserialize for BlockIdExt (serde_json::from_value, main.rs 178)
BlockIdExt(j) ==
    IF /\ FitsI64(j, "workchain") /\ FitsString(j, "shard") /\ FitsU64(j, "seqno")
       /\ FitsString(j, "root_hash") /\ FitsString(j, "file_hash")
    THEN Ok([workchain |-> j.workchain.num, shard |-> j.shard.str,
             seqno |-> j.seqno.num, root_hash |-> j.root_hash.str,
             file_hash |-> j.file_hash.str])
    ELSE Err("missing field")

\* account of a ShortTxId: "AQ==", "qrvM", "!w==" (no base64)
AccountTexts ==
    { <<"A","Q","=","=">>, <<"q","r","v","M">>, <<"!","w","=","=">> }

ShortTxIds ==
    { [account |-> a, hash |-> m.hash, lt |-> m.lt, mode |-> m.mode] :
        a \in AccountTexts,
        m \in { [hash |-> "h1", lt |-> "10", mode |-> 0],
                [hash |-> "h2", lt |-> "20", mode |-> 1] } }

\* transaction_id.lt of a RawTransaction: "100", "60", "50", "6x"
LtTexts ==
    { <<"1","0","0">>, <<"6","0">>, <<"5","0">>, <<"6","x">> }

RawTransactions ==
    { [transaction_id |-> [lt |-> l, hash |-> "h"], data |-> "boc"] : l \in LtTexts }

SeqsUpTo(S, n) == UNION { [1..k -> S] : k \in 0..n }

\* A stream is its records src and how many of them were handed out; a cyclic
\* stream starts over after the last record of src, and so never ends.
Streams(S) ==
    { [src |-> q, cyclic |-> c, pos |-> 0] :
        q \in SeqsUpTo(S, MaxStream), c \in BOOLEAN } \
    { [src |-> <<>>, cyclic |-> TRUE, pos |-> 0] }

\* the streams get_tx_stream hands out
BlockStreams == { Some(st) : st \in Streams(ShortTxIds) }

\* the streams get_account_tx_stream and get_account_tx_stream_from hand out
AccountStreams == { Some(st) : st \in Streams(RawTransactions) }

\* Stream::poll_next of a backend stream: the next record, or the end
PollNext(st) ==
    IF st.pos < Len(st.src)
    THEN [item |-> Some(st.src[st.pos + 1]),
          st |-> [st EXCEPT !.pos = IF st.cyclic /\ st.pos + 1 = Len(st.src)
                                    THEN 0 ELSE st.pos + 1]]
    ELSE [item |-> None, st |-> st]

BackendCall(op, args) == [op |-> op, args |-> args]

-----------------------------------------------------------------------------
(* The response envelope.                                                  *)

\* JsonError::code of every error
ErrorCode == -32603

JsonResponse_new(id, result) ==
    [ok |-> TRUE, result |-> Some(result), error |-> None,
     jsonrpc |-> "2.0", id |-> id]

JsonResponse_error_ok(id, e) ==
    [ok |-> TRUE, result |-> None,
     error |-> Some([code |-> ErrorCode, message |-> e]),
     jsonrpc |-> "2.0", id |-> id]

JsonResponse_error(id, e) ==
    [ok |-> FALSE, result |-> None,
     error |-> Some([code |-> ErrorCode, message |-> e]),
     jsonrpc |-> "2.0", id |-> id]

-----------------------------------------------------------------------------
(* The handlers of RpcServer that make at most one backend call.  Each     *)
(* gives its result and the backend calls it made; ans is the answer of    *)
(* the backend to the call, if one is made.                                *)

Outcome(res, cs) == [res |-> res, calls |-> cs]

master_chain_info(ans) ==
    Outcome(ans, <<BackendCall("get_masterchain_info", <<>>)>>)

lookup_block_any_seqno(params, ans) ==
    LET workchain == params.workchain
        shard == ParseI64(params.shard)
    IN  IF ~shard.ok THEN Outcome(Err(shard.err), <<>>)
        ELSE IF params.seqno # None
        THEN Outcome(ans, <<BackendCall("look_up_block_by_seqno",
                                        <<workchain, shard.val, params.seqno[1]>>)>>)
        ELSE IF params.lt # None /\ params.unixtime = None /\ params.lt[1] > 0
        THEN Outcome(ans, <<BackendCall("look_up_block_by_lt",
                                        <<workchain, shard.val, params.lt[1]>>)>>)
        ELSE IF params.lt = None /\ params.unixtime # None
        THEN Outcome(Err("unixtime is not supported"), <<>>)
        ELSE Outcome(Err("seqno or lt or unixtime must be provided"), <<>>)

lookup_block(params, ans) ==
    LET workchain == params.workchain
        shard == ParseI64(params.shard)
    IN  IF ~shard.ok THEN Outcome(Err(shard.err), <<>>)
        ELSE IF /\ params.seqno # None /\ params.lt = None /\ params.unixtime = None
                /\ params.seqno[1] > 0
        THEN Outcome(ans, <<BackendCall("look_up_block_by_seqno",
                                        <<workchain, shard.val, params.seqno[1]>>)>>)
        ELSE IF /\ params.seqno = None /\ params.lt # None /\ params.unixtime = None
                /\ params.lt[1] > 0
        THEN Outcome(ans, <<BackendCall("look_up_block_by_lt",
                                        <<workchain, shard.val, params.lt[1]>>)>>)
        ELSE IF params.seqno = None /\ params.lt = None /\ params.unixtime # None
        THEN Outcome(Err("unixtime is not supported"), <<>>)
        ELSE Outcome(Err("seqno or lt or unixtime must be provided"), <<>>)

shards(params, ans) ==
    Outcome(ans, <<BackendCall("get_shards", <<params.seqno>>)>>)

get_block_header(params, ans) ==
    LET shard == ParseI64(params.shard)
    IN  IF ~shard.ok THEN Outcome(Err(shard.err), <<>>)
        ELSE Outcome(ans, <<BackendCall("get_block_header",
                                        <<params.workchain, shard.val, params.seqno>>)>>)

get_address_information(params, ans) ==
    Outcome(ans, <<BackendCall("raw_get_account_state", <<params.address>>)>>)

get_extended_address_information(params, ans) ==
    Outcome(ans, <<BackendCall("get_account_state", <<params.address>>)>>)

send_boc(params, ans) ==
    LET boc == Base64Decode(params.boc)
    IN  IF ~boc.ok THEN Outcome(Err(boc.err), <<>>)
        ELSE Outcome(ans, <<BackendCall("send_message", <<Base64Encode(boc.val)>>)>>)

-----------------------------------------------------------------------------
(* get_block_transactions.                                                 *)

\* params.count.unwrap_or(200)
DefaultCount == 200

BlockCount(params) ==
    IF params.count = None THEN DefaultCount ELSE params.count[1]

MapShortTxId_no_workchain(blk, tx) ==
    LET hex == base64_to_hex(tx.account)
    IN  IF ~hex.ok THEN Err("called Result::unwrap() on an Err value")
        ELSE Ok([account |-> hex.val,
                 hash |-> tx.hash, lt |-> tx.lt, mode |-> tx.mode])

\* the closure given to map: the account rewritten to "<workchain>:<hex>"
MapShortTxId(blk, tx) ==
    LET hex == base64_to_hex(tx.account)
    IN  IF ~hex.ok THEN Err("called Result::unwrap() on an Err value")
        ELSE Ok([account |-> ToString(blk.workchain) \o ":" \o hex.val,
                 hash |-> tx.hash, lt |-> tx.lt, mode |-> tx.mode])

\* the json! value of a successful get_block_transactions
BlockTransactionsJson(blk, count, tx) ==
    ("@type" :> "blocks.transactions") @@
    [id |-> blk, incomplete |-> FALSE, req_count |-> count, transactions |-> tx]

-----------------------------------------------------------------------------
(* get_transactions.                                                       *)

\* params.limit.unwrap_or(10)
DefaultLimit == 10

TransactionsCount(params) ==
    IF params.limit = None THEN DefaultLimit ELSE params.limit[1]

\* params.to_lt.and_then(|x| x.parse::<i64>().ok())
MaxLt(params) ==
    IF params.to_lt = None THEN None
    ELSE LET p == ParseI64(params.to_lt[1])
         IN  IF p.ok THEN Some(p.val) ELSE None

\* the backend call that opens the stream: from the cursor when both lt and
\* hash are given, from the latest transaction otherwise
TransactionsStreamCall(params) ==
    IF params.lt # None /\ params.hash # None
    THEN BackendCall("get_account_tx_stream_from",
                     <<params.address, [hash |-> params.hash[1], lt |-> params.lt[1]]>>)
    ELSE BackendCall("get_account_tx_stream", <<params.address>>)

TakeWhilePredicate_ge(tx, to_lt) ==
    LET lt == ParseI64(tx.transaction_id.lt)
    IN  IF ~lt.ok THEN Err("called Result::unwrap() on an Err value")
        ELSE Ok(~I64Gt(to_lt, lt.val))

\* the predicate of take_while: tx.transaction_id.lt.parse::<i64>().unwrap() > to_lt
TakeWhilePredicate(tx, to_lt) ==
    LET lt == ParseI64(tx.transaction_id.lt)
    IN  IF ~lt.ok THEN Err("called Result::unwrap() on an Err value")
        ELSE Ok(I64Gt(lt.val, to_lt))

Polled(kind, item, st, done, polled) ==
    [kind |-> kind, item |-> item, st |-> st, done |-> done, polled |-> polled]

\* TakeWhile::poll_next: once done it ends without polling the stream
TakeWhilePoll(st, done, to_lt) ==
    IF done THEN Polled("end", None, st, TRUE, 0)
    ELSE LET n == PollNext(st) IN
         IF n.item = None THEN Polled("end", None, n.st, TRUE, 1)
         ELSE LET keep == TakeWhilePredicate(n.item[1], to_lt) IN
              IF ~keep.ok THEN Polled("panic", None, n.st, done, 1)
              ELSE IF keep.val THEN Polled("item", n.item, n.st, done, 1)
              ELSE Polled("end", None, n.st, TRUE, 1)

\* the stream under take: take_while over the backend stream when to_lt
\* parsed, the backend stream itself otherwise
InnerPoll(st, done, max_lt) ==
    IF max_lt # None THEN TakeWhilePoll(st, done, max_lt[1])
    ELSE LET n == PollNext(st) IN
         Polled(IF n.item = None THEN "end" ELSE "item", n.item, n.st, done, 1)

TakePoll_eager(rem, st, done, max_lt) ==
    LET r == InnerPoll(st, done, max_lt) IN
    IF rem > 0
    THEN [r |-> r, rem |-> IF r.kind = "item" THEN rem - 1
                           ELSE IF r.kind = "end" THEN 0 ELSE rem]
    ELSE [r |-> Polled("end", None, r.st, r.done, r.polled), rem |-> rem]

\* Take::poll_next: with nothing remaining it ends without polling the stream
TakePoll(rem, st, done, max_lt) ==
    IF rem > 0
    THEN LET r == InnerPoll(st, done, max_lt) IN
         [r |-> r, rem |-> IF r.kind = "item" THEN rem - 1
                           ELSE IF r.kind = "end" THEN 0 ELSE rem]
    ELSE [r |-> Polled("end", None, st, done, 0), rem |-> rem]

-----------------------------------------------------------------------------
(* The state machine of one request.                                       *)

Init ==
    /\ pc = "idle"
    /\ raw = None
    /\ req = None
    /\ calls = <<>>
    /\ block = None
    /\ stream = None
    /\ pulls = 0
    /\ remaining = 0
    /\ twdone = FALSE
    /\ txs = <<>>
    /\ resp = None

Req == req[1]

\* The Json<JsonRequest> extractor of the route: a body that does not decode
\* is refused before dispatch_method runs.
Receive ==
    /\ pc = "idle"
    /\ \E body \in RawBodies :
         LET d == JsonRequest(body) IN
         /\ raw' = Some(body)
         /\ IF d.ok THEN req' = Some(d.val) /\ pc' = "dispatch"
                    ELSE req' = None /\ pc' = "rejected"
    /\ UNCHANGED <<calls, block, stream, pulls, remaining, twdone, txs, resp>>

\* the end of dispatch_method: the result wrapped in the envelope
dispatch_method(payload, result) ==
    IF result.ok THEN JsonResponse_new(payload.id, result.val)
    ELSE JsonResponse_error(payload.id, result.err)

Respond(result) ==
    /\ resp' = Some(dispatch_method(Req, result))
    /\ pc' = "done"

\* a handler that runs in one step
Handle(out) ==
    /\ calls' = out.calls
    /\ Respond(out.res)
    /\ UNCHANGED <<raw, req, block, stream, pulls, remaining, twdone, txs>>

MasterchainInfo ==
    /\ pc = "dispatch" /\ Req.method = "MasterchainInfo"
    /\ \E ans \in BackendAnswers : Handle(master_chain_info(ans))

LookupBlock ==
    /\ pc = "dispatch" /\ Req.method = "LookupBlock"
    /\ \E ans \in LookupAnswers : Handle(lookup_block(Req.params, ans))

Shards ==
    /\ pc = "dispatch" /\ Req.method = "Shards"
    /\ \E ans \in BackendAnswers : Handle(shards(Req.params, ans))

BlockHeader ==
    /\ pc = "dispatch" /\ Req.method = "BlockHeader"
    /\ \E ans \in BackendAnswers : Handle(get_block_header(Req.params, ans))

AddressInformation ==
    /\ pc = "dispatch" /\ Req.method = "AddressInformation"
    /\ \E ans \in BackendAnswers : Handle(get_address_information(Req.params, ans))

ExtendedAddressInformation ==
    /\ pc = "dispatch" /\ Req.method = "ExtendedAddressInformation"
    /\ \E ans \in BackendAnswers :
         Handle(get_extended_address_information(Req.params, ans))

SendBoc ==
    /\ pc = "dispatch" /\ Req.method = "SendBoc"
    /\ \E ans \in BackendAnswers : Handle(send_boc(Req.params, ans))

\* get_block_transactions up to the stream: the shard, the lookup, the decoding
\* of the block and get_tx_stream
BlockTransactionsLookup ==
    /\ pc = "dispatch" /\ Req.method = "BlockTransactions"
    /\ LET params == Req.params
           shard == ParseI64(params.shard)
           lookup == BackendCall("look_up_block_by_seqno",
                                 <<params.workchain, shard.val, params.seqno>>)
       IN  IF ~shard.ok
           THEN /\ calls' = <<>>
                /\ Respond(Err(shard.err))
                /\ UNCHANGED <<block, stream>>
           ELSE \E ans \in LookupAnswers :
                  LET blk == IF ans.ok THEN BlockIdExt(ans.val) ELSE ans IN
                  IF ~blk.ok
                  THEN /\ calls' = <<lookup>>
                       /\ Respond(Err(blk.err))
                       /\ UNCHANGED <<block, stream>>
                  ELSE /\ pc' = "bt_stream"
                       /\ calls' = <<lookup, BackendCall("get_tx_stream", <<blk.val>>)>>
                       /\ block' = Some(blk.val)
                       /\ stream' \in BlockStreams
                       /\ resp' = resp
    /\ UNCHANGED <<raw, req, pulls, remaining, twdone, txs>>

\* one turn of collect over the mapped block stream.  Of an unbounded stream
\* the Vec keeps its first MaxCollect records in the model.
BlockTransactionsPull ==
    /\ pc = "bt_stream"
    /\ \E n \in {PollNext(stream[1])} :
       \E full \in {stream[1].cyclic /\ Len(txs) >= MaxCollect} :
           /\ stream' = Some(n.st)
           /\ pulls' = IF full THEN pulls ELSE pulls + 1
           /\ IF n.item = None
              THEN /\ Respond(Ok(BlockTransactionsJson(block[1],
                                                       BlockCount(Req.params), txs)))
                   /\ txs' = txs
              ELSE \E tx \in {MapShortTxId(block[1], n.item[1])} :
                   IF ~tx.ok
                   THEN pc' = "aborted" /\ UNCHANGED <<txs, resp>>
                   ELSE /\ txs' = IF full THEN txs ELSE Append(txs, tx.val)
                        /\ UNCHANGED <<pc, resp>>
    /\ UNCHANGED <<raw, req, calls, block, remaining, twdone>>

\* get_transactions up to the pipeline: the parameters and the backend stream
TransactionsOpen ==
    /\ pc = "dispatch" /\ Req.method = "Transactions"
    /\ pc' = "tx_stream"
    /\ calls' = <<TransactionsStreamCall(Req.params)>>
    /\ stream' \in AccountStreams
    /\ remaining' = TransactionsCount(Req.params)
    /\ twdone' = FALSE
    /\ UNCHANGED <<raw, req, block, pulls, txs, resp>>

\* one turn of collect over take(count) of the pipeline
TransactionsPoll ==
    /\ pc = "tx_stream"
    /\ \E t \in {TakePoll(remaining, stream[1], twdone, MaxLt(Req.params))} :
           /\ stream' = Some(t.r.st)
           /\ twdone' = t.r.done
           /\ remaining' = t.rem
           /\ pulls' = pulls + t.r.polled
           /\ CASE t.r.kind = "item" ->
                     txs' = Append(txs, t.r.item[1]) /\ UNCHANGED <<pc, resp>>
                [] t.r.kind = "end" ->
                     Respond(Ok(txs)) /\ txs' = txs
                [] t.r.kind = "panic" ->
                     pc' = "aborted" /\ UNCHANGED <<txs, resp>>
    /\ UNCHANGED <<raw, req, calls, block>>

Handler ==
    \/ MasterchainInfo
    \/ LookupBlock
    \/ Shards
    \/ BlockHeader
    \/ AddressInformation
    \/ ExtendedAddressInformation
    \/ SendBoc
    \/ BlockTransactionsLookup
    \/ BlockTransactionsPull
    \/ TransactionsOpen
    \/ TransactionsPoll

Next == Receive \/ Handler

Spec == Init /\ [][Next]_vars

\* every backend call and every pull from a stream returns
FairSpec == Spec /\ WF_vars(Handler)

-----------------------------------------------------------------------------
(* Notions the claims are stated with.                                     *)

Min(a, b) == IF a <= b THEN a ELSE b

Body == raw[1]
Response == resp[1]

Running == pc \in {"dispatch", "bt_stream", "tx_stream", "done", "aborted"}

\* the request was decoded as method tag
Handling(tag) == Running /\ Req.method = tag

\* the text does not parse as a signed 64-bit integer
Unparsable(text) == ~ParseI64(text).ok

\* a record of the account stream has a logical time strictly greater than bound
Newer(tx, bound) ==
    LET lt == ParseI64(tx.transaction_id.lt)
    IN  lt.ok /\ I64Gt(lt.val, bound)

\* the stop condition of the request: none when to_lt is absent (or no number)
StopBound ==
    IF "to_lt" \notin DOMAIN Body.params \/ Unparsable(Body.params.to_lt.str)
    THEN None
    ELSE Some(ParseI64(Body.params.to_lt.str).val)

Passes(tx) == StopBound = None \/ Newer(tx, StopBound[1])

\* the number of leading records of src that pass the stop condition
Leading(src) ==
    CHOOSE n \in 0..Len(src) :
        /\ \A i \in 1..n : Passes(src[i])
        /\ n = Len(src) \/ ~Passes(src[n + 1])

\* the limit of the request
Limit ==
    IF "limit" \in DOMAIN Body.params THEN Body.params.limit.num ELSE 10

\* record i of the stream st, which starts over when it is cyclic
StreamAt(st, i) == st.src[((i - 1) % Len(st.src)) + 1]

\* an unbounded stream all of whose records pass the stop condition
Endless(st) == st.cyclic /\ Leading(st.src) = Len(st.src)

\* how many records getTransactions has to return from st
Expected(st) ==
    IF Endless(st) THEN Limit ELSE Min(Limit, Leading(st.src))

-----------------------------------------------------------------------------
(* C1: every response carries the id of the request body, and ok is true   *)
(* exactly when result is present and error absent, false exactly when     *)
(* error is present and result absent.                                     *)
C1_EnvelopeEchoesIdAndOk ==
    resp # None =>
        /\ Response.id = Body.id.num
        /\ Response.ok <=> (Response.result # None /\ Response.error = None)
        /\ ~Response.ok <=> (Response.error # None /\ Response.result = None)

\* a backend failure was answered, to the request with id 7
C1_Witness ==
    /\ pc = "done" /\ calls # <<>>
    /\ ~Response.ok /\ Response.id = 7

(* C2: every failure after decoding ends the request with an envelope that *)
(* has ok false and the generic error code; no failure ends the handler    *)
(* without an envelope.                                                    *)
C2_EveryFailureIsEnveloped ==
    pc \in {"done", "aborted"} =>
        /\ resp # None
        /\ ~Response.ok =>
              /\ Response.result = None
              /\ Response.error # None
              /\ Response.error[1].code = -32603

(* C3: lookupBlock with a parsable shard calls the seqno lookup exactly     *)
(* when only seqno is given and positive, the lt lookup exactly when only  *)
(* lt is given and positive, and otherwise answers a validation error      *)
(* without any backend call.                                               *)
C3_LookupBlockRouting ==
    (pc = "done" /\ Req.method = "LookupBlock" /\ ~Unparsable(Body.params.shard.str)) =>
        LET p == Body.params
            has(f) == f \in DOMAIN p
            bySeqno == has("seqno") /\ ~has("lt") /\ ~has("unixtime") /\ p.seqno.num > 0
            byLt == has("lt") /\ ~has("seqno") /\ ~has("unixtime") /\ p.lt.num > 0
        IN  /\ bySeqno <=> (Len(calls) = 1 /\ calls[1].op = "look_up_block_by_seqno")
            /\ byLt <=> (Len(calls) = 1 /\ calls[1].op = "look_up_block_by_lt")
            /\ ~(bySeqno \/ byLt) =>
                  /\ calls = <<>>
                  /\ ~Response.ok
                  /\ Response.error[1].message \in
                        { "unixtime is not supported",
                          "seqno or lt or unixtime must be provided" }

\* the lt lookup was called for lt = 7
C3_Witness ==
    /\ pc = "done" /\ Req.method = "LookupBlock"
    /\ Len(calls) = 1 /\ calls[1].op = "look_up_block_by_lt"
    /\ calls[1].args[3] = 7

(* C4: getTransactions returns, in source order, exactly the first          *)
(* min(limit, k) records of the stream, k being the number of records      *)
(* before the first one whose logical time is not strictly greater than    *)
(* to_lt; never more than limit records, never one with lt <= to_lt.       *)
C4_TransactionsPrefix ==
    (pc = "done" /\ Req.method = "Transactions") =>
        /\ Response.ok
        /\ LET out == Response.result[1]
               n == Expected(stream[1])
           IN  /\ Len(out) = n
               /\ \A i \in 1..n : out[i] = StreamAt(stream[1], i)
               /\ Len(out) <= Limit
               /\ \A i \in 1..Len(out) :
                     StopBound # None => Newer(out[i], StopBound[1])

\* of three records the first was returned, the second stopped the stream
\* before the limit of 2 was reached
C4_Witness ==
    /\ pc = "done" /\ Req.method = "Transactions"
    /\ StopBound # None /\ Limit = 2
    /\ Len(stream[1].src) = 3 /\ ~stream[1].cyclic
    /\ Len(Response.result[1]) = 1

(* C5: the transactions list of getBlockTransactions has at most count      *)
(* records, at most 200 when count is absent.                              *)
C5_BlockTransactionsCapped ==
    (pc = "done" /\ Req.method = "BlockTransactions" /\ Response.ok) =>
        Len(Response.result[1].transactions) <=
            (IF "count" \in DOMAIN Body.params THEN Body.params.count.num ELSE 200)

(* C6: in a successful getBlockTransactions response record i is record i   *)
(* of the block's stream with its account rewritten to "<workchain>:<hex>",*)
(* hex being base64_to_hex of the account and workchain the one of the     *)
(* block the lookup answered; hash, lt and mode are unchanged.             *)
C6_BlockTransactionsRewritten ==
    (pc = "done" /\ Req.method = "BlockTransactions" /\ Response.ok) =>
        LET out == Response.result[1].transactions
            src == stream[1].src
            wc == calls[2].args[1].workchain
        IN  /\ Len(out) <= Len(src)
            /\ \A i \in 1..Len(out) :
                  /\ base64_to_hex(src[i].account).ok
                  /\ out[i].account =
                        ToString(wc) \o ":" \o base64_to_hex(src[i].account).val
                  /\ out[i].hash = src[i].hash
                  /\ out[i].lt = src[i].lt
                  /\ out[i].mode = src[i].mode
                  /\ (src[i].account = <<"q","r","v","M">> /\ wc = -1)
                        => out[i].account = "-1:aabbcc"
                  /\ (src[i].account = <<"A","Q","=","=">> /\ wc = 0)
                        => out[i].account = "0:01"

\* two different accounts were rewritten, for a block of workchain 0 asked
\* for in workchain -1
C6_Witness ==
    /\ pc = "done" /\ Req.method = "BlockTransactions" /\ Response.ok
    /\ Body.params.workchain.num = -1
    /\ Len(Response.result[1].transactions) = 2
    /\ Response.result[1].transactions[1].account = "0:01"
    /\ Response.result[1].transactions[2].account = "0:aabbcc"

(* C7: a shard (lookupBlock, getBlockHeader, getBlockTransactions) or a     *)
(* to_lt (getTransactions) that does not parse as a signed 64-bit integer  *)
(* makes the request fail with ok false, without any backend call.         *)
C7_UnparsableNumberRejected ==
    LET badShard ==
            /\ Req.method \in {"LookupBlock", "BlockHeader", "BlockTransactions"}
            /\ Unparsable(Body.params.shard.str)
        badToLt ==
            /\ Req.method = "Transactions"
            /\ "to_lt" \in DOMAIN Body.params
            /\ Unparsable(Body.params.to_lt.str)
    IN  (Running /\ (badShard \/ badToLt)) =>
            /\ calls = <<>>
            /\ pc # "aborted"
            /\ pc = "done" => ~Response.ok

(* C8: a body whose method is none of the nine names, or whose params do    *)
(* not fit the method, is refused: the dispatcher never runs for it and no *)
(* backend operation is invoked.                                           *)
C8_UndecodableNeverDispatched ==
    LET unknown ==
            \/ "method" \notin DOMAIN Body
            \/ Body.method.str \notin
                 { "lookupBlock", "shards", "getBlockHeader", "getBlockTransactions",
                   "getAddressInformation", "getExtendedAddressInformation",
                   "getTransactions", "sendBoc", "getMasterchainInfo" }
        m == Body.method.str
        ps == Body.params
        misfit ==
            \/ m # "getMasterchainInfo" /\ "params" \notin DOMAIN Body
            \/ m = "getTransactions" /\ "address" \notin DOMAIN ps
            \/ m = "getTransactions" /\ "limit" \in DOMAIN ps /\ ps.limit.num > 65535
            \/ m = "getBlockTransactions" /\ "count" \in DOMAIN ps /\ ps.count.num > 255
            \/ m = "shards" /\ ps.seqno.num < 0
            \/ m \in {"getAddressInformation", "getExtendedAddressInformation"}
                 /\ "str" \notin DOMAIN ps.address
    IN  (raw # None /\ (unknown \/ misfit)) =>
            /\ pc = "rejected"
            /\ req = None
            /\ calls = <<>>
            /\ resp = None

\* the body with the unknown method getBlock was refused
C8_Witness ==
    /\ pc = "rejected"
    /\ "method" \in DOMAIN Body /\ Body.method.str = "getBlock"
    /\ calls = <<>>

(* C9: getTransactions pulls lazily: no record is pulled after the first    *)
(* one that fails lt > to_lt, none after limit records, none at all with   *)
(* limit 0; the pulls never exceed min(limit, k + 1), k being the number   *)
(* of leading records that pass the stop condition.                        *)
C9_PullsShortCircuit ==
    (Handling("Transactions") /\ stream # None) =>
        /\ pulls <= (IF Endless(stream[1]) THEN Limit
                     ELSE Min(Limit, Leading(stream[1].src) + 1))
        /\ Limit = 0 => pulls = 0
        /\ twdone => pulls <= Leading(stream[1].src) + 1

\* the second record stopped the stream: two pulls, the third record was
\* never pulled although the limit of 2 was not reached
C9_Witness ==
    /\ pc = "done" /\ Req.method = "Transactions"
    /\ Limit = 2 /\ twdone /\ pulls = 2
    /\ Len(stream[1].src) = 3 /\ ~stream[1].cyclic
    /\ Len(txs) = 1

(* C10: a transaction-listing request eventually produces a response, even *)
(* when the backend stream is unbounded, provided every backend call and   *)
(* every pull returns.                                                     *)
C10_ListingEventuallyResponds ==
    (pc = "dispatch" /\ Req.method \in {"BlockTransactions", "Transactions"})
        ~> (pc = "done")

====
